---- MODULE Spec2Model ----
(***************************************************************************)
(* Model of the shift-scheduling service (src/api):                        *)
(*   - the schedule state store and its two save handlers                  *)
(*     (state.py, index.py), run by concurrent request threads;            *)
(*   - the cell-level schedule diff (state.py);                            *)
(*   - the rule post-validator (validation.py);                            *)
(*   - the constraint model of the solver and its renderer (solver.py).    *)
(***************************************************************************)
EXTENDS Integers, Sequences, FiniteSets, TLC

VARIABLES
    \* --- schedule state store (Spec) ---
    file,           \* content of STATE_FILE on disk
    pc,             \* position of each request handler thread
    request,        \* the ScheduleSaveRequest each handler is serving
    current_state,  \* what load_schedule_state() returned to the handler
    response,       \* the HTTP outcome of the handler, once it is done
    started,        \* number of save requests received so far
    persisted,      \* history: the states written by completed saves
    \* --- schedule diff (SpecDiff) ---
    previous,       \* first argument of compute_schedule_changes
    updated,        \* second argument of compute_schedule_changes
    changes,        \* its result
    diffDone,       \* whether the function has been applied
    \* --- solver (SpecSolver) ---
    data,           \* the reference data read by _load_initial_data()
    schedule_request, \* the ScheduleRequest given to solve_shift_scheduling
    solution,       \* the values of work[p, d, s] and night_recovery[p, d]
    status,         \* the solver status name that is returned
    rendered,       \* the rendered schedule that is returned
    \* --- rule post-validator (SpecValidate) ---
    validator_schedule, \* the schedule given to validate_schedule_rules
    validator_people,   \* the people given to validate_schedule_rules
    violations,     \* the violations it collected
    validatorDone,  \* whether the function has been applied
    \* --- time-window mapper (SpecMapper) ---
    mapper_shifts,  \* the shift table given to _build_time_ranges
    mapper_same_day, \* the first mapping it returns
    mapper_carry_over, \* the second mapping it returns
    mapperDone      \* whether the function has been applied

storeVars  == <<file, pc, request, current_state, response, started, persisted>>
diffVars   == <<previous, updated, changes, diffDone>>
solverVars == <<data, schedule_request, solution, status, rendered>>
validatorVars ==
    <<validator_schedule, validator_people, violations, validatorDone>>
mapperVars ==
    <<mapper_shifts, mapper_same_day, mapper_carry_over, mapperDone>>
vars       == <<storeVars, diffVars, solverVars, validatorVars, mapperVars>>

-----------------------------------------------------------------------------
(* Bounds of the model *)

\* number of save requests received in one run
MaxRequests == 3
\* largest baseVersion a client sends
MaxBaseVersion == 2
\* longest day array of a schedule given to the diff
MaxLen == 2
\* days of the month (the "days" of the reference data)
NumDays == 4
\* longest shift table given to the time-window mapper
MaxShifts == 2

-----------------------------------------------------------------------------
(* Values *)

\* Python's None in a schedule cell (Optional[str])
None == "None"

\* Optional[int]: <<>> is None, <<v>> is the integer v
NoVersion == <<>>
SomeVersion(v) == <<v>>

\* the night-recovery token (the kanji "ake" of solver.py:428) and the
\* paid-leave token ("yuukyuu", solver.py:431), written in ASCII
RecoveryToken == "AKE"
PaidLeaveToken == "YUKYU"

\* Person ids in the order Python's sorted() gives them (code-point order)
IdOrder == <<"a", "b">>

Rank(id) == CHOOSE i \in 1..Len(IdOrder) : IdOrder[i] = id

Max(a, b) == IF a >= b THEN a ELSE b
Min(a, b) == IF a <= b THEN a ELSE b

\* the empty dict
EmptySchedule == [p \in {} |-> <<>>]

\* ScheduleState() with its field defaults
DefaultState == [version |-> 1, locked |-> FALSE, schedule |-> EmptySchedule]

-----------------------------------------------------------------------------
(* state.py: the schedule diff *)

\* _value_or_none(items, index), index 0-based
value_or_none(items, index) ==
    IF index < 0 \/ index >= Len(items) THEN None ELSE items[index + 1]

\* sorted(keys): the ids of `keys` in IdOrder
RECURSIVE SortedFrom(_, _)
SortedFrom(keys, i) ==
    IF i > Len(IdOrder) THEN <<>>
    ELSE (IF IdOrder[i] \in keys THEN <<IdOrder[i]>> ELSE <<>>)
         \o SortedFrom(keys, i + 1)

sorted(keys) == SortedFrom(keys, 1)

\* previous.get(person_id, [])
GetDays(schedule, person_id) ==
    IF person_id \in DOMAIN schedule THEN schedule[person_id] ELSE <<>>

\* the inner loop: for day_index in range(max_len), from day_index on
RECURSIVE DayChanges(_, _, _, _, _)
DayChanges(person_id, prev_days, next_days, day_index, max_len) ==
    IF day_index >= max_len THEN <<>>
    ELSE LET before == value_or_none(prev_days, day_index)
             after  == value_or_none(next_days, day_index)
             rest   == DayChanges(person_id, prev_days, next_days,
                                  day_index + 1, max_len)
         IN  IF before = after THEN rest
             ELSE <<[personId |-> person_id, dayIndex |-> day_index,
                     previous |-> before, updated |-> after]>> \o rest

\* the outer loop over the sorted person ids, from position i on
RECURSIVE PersonChanges(_, _, _, _)
PersonChanges(ids, prev, upd, i) ==
    IF i > Len(ids) THEN <<>>
    ELSE LET prev_days == GetDays(prev, ids[i])
             next_days == GetDays(upd, ids[i])
             max_len   == Max(Len(prev_days), Len(next_days))
         IN  DayChanges(ids[i], prev_days, next_days, 0, max_len)
             \o PersonChanges(ids, prev, upd, i + 1)

ComputeChangesPrevLenOnly(prev, upd) ==
    LET ids == sorted(DOMAIN prev \cup DOMAIN upd)
        RECURSIVE Go(_)
        Go(i) == IF i > Len(ids) THEN <<>>
                 ELSE DayChanges(ids[i], GetDays(prev, ids[i]),
                                 GetDays(upd, ids[i]), 0,
                                 Len(GetDays(prev, ids[i])))
                      \o Go(i + 1)
    IN  Go(1)

compute_schedule_changes(prev, upd) ==
    PersonChanges(sorted(DOMAIN prev \cup DOMAIN upd), prev, upd, 1)

-----------------------------------------------------------------------------
(* Reference data (input_data.json) used by the validator and the solver *)

\* the shift table, in configuration order
Shifts == <<[code |-> "EA", start |-> 7,  end |-> 16],
            [code |-> "NA", start |-> 16, end |-> 33],
            [code |-> "NC", start |-> 21, end |-> 31]>>

\* the people of the reference data (the fields the validator reads)
RefPeople == <<[id |-> "a", weeklyMax |-> 40, monthlyMax |-> 160,
                consecMax |-> 2]>>

\* days of the month and weekday of day 1 (0 = Monday) in the reference data
RefDays == NumDays
RefWeekdayOfDay1 == 0

-----------------------------------------------------------------------------
(* validation.py: the rule post-validator *)

\* shift_map.get(assignment) if assignment else None, as <<>> or <<shift>>
ShiftOf(shifts, assignment) ==
    IF assignment = None \/ assignment = "" THEN <<>>
    ELSE LET hits == {i \in 1..Len(shifts) : shifts[i].code = assignment}
         IN  IF hits = {} THEN <<>>
             ELSE <<shifts[CHOOSE i \in hits : \A j \in hits : j <= i]>>

\* _shift_duration(shift)
shift_duration(shift) ==
    IF shift = <<>> THEN 0 ELSE shift[1].end - shift[1].start

\* the body of the day loop of validate_schedule_rules, from day_index on;
\* st holds consecutive_days, weekly_hours, monthly_hours and the violations
RECURSIVE WalkDays(_, _, _, _, _, _, _)
WalkDays(person, assignments, shifts, days, weekday_of_day1, day_index, st) ==
    IF day_index >= days THEN st
    ELSE LET assignment == value_or_none(assignments, day_index)
             shift == ShiftOf(shifts, assignment)
             hours == shift_duration(shift)
             consec == IF shift # <<>> THEN st.consecutive_days + 1 ELSE 0
             v1 == IF shift # <<>> /\ consec > person.consecMax
                   THEN <<[person |-> person.id, rule |-> "consecMax",
                           day |-> day_index + 1]>>
                   ELSE <<>>
             weekly == st.weekly_hours + hours
             is_week_end == (weekday_of_day1 + day_index) % 7 = 6
             v2 == IF is_week_end /\ weekly > person.weeklyMax
                   THEN <<[person |-> person.id, rule |-> "weeklyMax",
                           day |-> 0]>>
                   ELSE <<>>
         IN  WalkDays(person, assignments, shifts, days, weekday_of_day1,
                      day_index + 1,
                      [consecutive_days |-> consec,
                       weekly_hours |-> IF is_week_end THEN 0 ELSE weekly,
                       monthly_hours |-> st.monthly_hours + hours,
                       violations |-> st.violations \o v1 \o v2])

\* the violations validate_schedule_rules collects for one person
PersonViolations(schedule, person, shifts, days, weekday_of_day1) ==
    LET st == WalkDays(person, GetDays(schedule, person.id), shifts, days,
                       weekday_of_day1, 0,
                       [consecutive_days |-> 0, weekly_hours |-> 0,
                        monthly_hours |-> 0, violations |-> <<>>])
        v3 == IF st.weekly_hours > person.weeklyMax
              THEN <<[person |-> person.id, rule |-> "weeklyMax", day |-> 0]>>
              ELSE <<>>
        v4 == IF st.monthly_hours > person.monthlyMax
              THEN <<[person |-> person.id, rule |-> "monthlyMax", day |-> 0]>>
              ELSE <<>>
    IN  st.violations \o v3 \o v4

\* validate_schedule_rules: the list of violations; it raises 400
\* RULE_VIOLATION when the list is not empty
RECURSIVE ViolationsFrom(_, _, _, _, _, _)
ViolationsFrom(schedule, people, shifts, days, weekday_of_day1, i) ==
    IF i > Len(people) THEN <<>>
    ELSE PersonViolations(schedule, people[i], shifts, days, weekday_of_day1)
         \o ViolationsFrom(schedule, people, shifts, days, weekday_of_day1,
                           i + 1)

validate_schedule_rules(schedule, people, shifts, days, weekday_of_day1) ==
    ViolationsFrom(schedule, people, shifts, days, weekday_of_day1, 1)

-----------------------------------------------------------------------------
(* solver.py: the constraint model built by solve_shift_scheduling *)

\* dict.get(key, default) on a function used as a dict
Get(dict, key, default) == IF key \in DOMAIN dict THEN dict[key] ELSE default

\* the elements of a list, as a set
Elems(seq) == {seq[i] : i \in 1..Len(seq)}

\* num_days = data["days"]
num_days == NumDays

\* all_shift_codes = list(shifts.keys()), in configuration order
all_shift_codes == [i \in 1..Len(Shifts) |-> Shifts[i].code]

\* night_rest = data["rules"]["nightRest"]
night_rest == [c \in {"NA", "NC"} |-> IF c = "NA" THEN 2 ELSE 1]

\* weekday_map, with the weekday glyphs written in ASCII (Mon .. Sun)
weekday_map == <<"Mon", "Tue", "Wed", "Thu", "Fri", "Sat", "Sun">>

\* start_weekday = data["weekdayOfDay1"] % 7
start_weekday == RefWeekdayOfDay1 % 7

\* night_recovery_counts: each code's recovery count clamped into
\* [0, rest_days], defaulting to rest_days
night_recovery_counts(dat) ==
    [code \in DOMAIN night_rest \cup DOMAIN dat.nightRecoveryCounts |->
        LET rest_value == Get(night_rest, code, 0)
            recovery_value == Get(dat.nightRecoveryCounts, code, rest_value)
        IN  Max(0, Min(recovery_value, rest_value))]

\* previous_month_carry: the request's carry (the reference data's when the
\* request gives none), keeping the valid shift codes that list somebody
previous_month_carry(dat, rq) ==
    LET raw == IF rq.previousMonthNightCarry # <<>>
               THEN rq.previousMonthNightCarry[1]
               ELSE dat.previousMonthNightCarry
        kept == {s_code \in DOMAIN raw :
                    s_code \in Elems(all_shift_codes) /\ raw[s_code] # <<>>}
    IN  [s_code \in kept |-> raw[s_code]]

\* person_indices.get(person_id): the 0-based index, or -1 for None
person_index(rq, person_id) ==
    IF \E i \in 1..Len(rq.people) : rq.people[i].id = person_id
    THEN (CHOOSE i \in 1..Len(rq.people) :
             /\ rq.people[i].id = person_id
             /\ \A j \in 1..Len(rq.people) :
                   rq.people[j].id = person_id => j <= i) - 1
    ELSE -1

\* initial_recovery_windows.get(p, 0): the longest recovery count among the
\* codes person p is carried under
initial_recovery_window(dat, rq, p) ==
    LET carry == previous_month_carry(dat, rq)
        counts == {LET rest_days == Get(night_rest, c, 0)
                   IN  Get(night_recovery_counts(dat), c, rest_days) :
                   c \in {c \in DOMAIN carry :
                            \E person_id \in Elems(carry[c]) :
                                person_index(rq, person_id) = p}}
        positive == {n \in counts : n > 0}
    IN  IF positive = {} THEN 0
        ELSE CHOOSE n \in positive : \A m \in positive : m <= n

\* p in initial_recovery_people
initial_recovery_person(dat, rq, p) == initial_recovery_window(dat, rq, p) > 0

\* paid_leave_days_by_index.get(p, set())
paid_leave_days(rq, p) ==
    {day \in Get(rq.paidLeaves, rq.people[p + 1].id, {}) :
        0 <= day /\ day < num_days}

\* the values of the variables of one person: row[d + 1] holds
\* work[p, d, *] (the set of codes whose variable is 1) and
\* night_recovery[p, d]
Work(row, d, s_code) == IF s_code \in row[d + 1].work THEN 1 ELSE 0
Recovery(row, d) == IF row[d + 1].rec THEN 1 ELSE 0
Worked(row, d) == Cardinality(row[d + 1].work)

\* a constraint is applied to the first Len(row) days of a person once all
\* its variables lie in them; on a full row it is the constraint the code
\* adds to the model
Known(row, d) == d < Len(row)
Full(row) == Len(row) = num_days

RECURSIVE SumOver(_, _, _)
SumOver(F(_), lo, hi) == IF lo > hi THEN 0 ELSE F(lo) + SumOver(F, lo + 1, hi)

\* lines 192-204: night_recovery[p, 0] is 1 exactly for the carried people,
\* and the first recovery_days - 1 days after day 0 are pinned to 1
InitialRecovery(dat, rq, p, d, cell) ==
    /\ d = 0 => (cell.rec <=> initial_recovery_person(dat, rq, p))
    /\ (1 <= d /\ d < Min(num_days, initial_recovery_window(dat, rq, p)))
          => cell.rec

\* lines 281-284: at most one shift per person per day
AtMostOneShift(cell) == Cardinality(cell.work) <= 1

\* lines 286-292: shift eligibility
Eligibility(rq, p, cell) == cell.work \subseteq rq.people[p + 1].canWork

\* lines 353-362: the days [0, rest_days] of a carried person are blocked
CarryBlockOffByOne(dat, rq, p, d, cell) ==
    \A night_code \in DOMAIN previous_month_carry(dat, rq) :
        LET rest_days == Get(night_rest, night_code, 0)
            blocked_days == rest_days
        IN  (/\ \E person_id \in
                    Elems(previous_month_carry(dat, rq)[night_code]) :
                    person_index(rq, person_id) = p
             /\ d < Min(num_days, blocked_days))
            => cell.work = {}

CarryBlock(dat, rq, p, d, cell) ==
    \A night_code \in DOMAIN previous_month_carry(dat, rq) :
        LET rest_days == Get(night_rest, night_code, 0)
            blocked_days == rest_days + 1
        IN  (/\ \E person_id \in
                    Elems(previous_month_carry(dat, rq)[night_code]) :
                    person_index(rq, person_id) = p
             /\ d < Min(num_days, blocked_days))
            => cell.work = {}

\* lines 398-418: fixed off weekdays, requested days off and paid leave
FixedOffAndRequests(rq, p, d, cell) ==
    /\ weekday_map[((start_weekday + d) % 7) + 1]
           \in rq.people[p + 1].fixedOffWeekdays => cell.work = {}
    /\ d \in Get(rq.wishOffs, rq.people[p + 1].id, {})
           => (cell.work = {} /\ ~cell.rec)
    /\ d \in paid_leave_days(rq, p) => (cell.work = {} /\ ~cell.rec)

\* the constraints on the variables of one (person, day)
CellConstraints(dat, rq, p, d, cell) ==
    /\ InitialRecovery(dat, rq, p, d, cell)
    /\ AtMostOneShift(cell)
    /\ Eligibility(rq, p, cell)
    /\ CarryBlock(dat, rq, p, d, cell)
    /\ FixedOffAndRequests(rq, p, d, cell)

\* lines 308-322: monthly minimum and maximum; recovery days and paid leave
\* count as worked days
MonthlyBounds(rq, p, row) ==
    Full(row) =>
        LET WorkedOn(d) == Worked(row, d)
            RecoveryOn(d) == Recovery(row, d)
            assigned_days == SumOver(WorkedOn, 0, num_days - 1)
            recovery_days == SumOver(RecoveryOn, 0, num_days - 1)
            paid_leave_count == Cardinality(paid_leave_days(rq, p))
            total == assigned_days + recovery_days + paid_leave_count
        IN  /\ total >= rq.people[p + 1].monthlyMin
            /\ total <= rq.people[p + 1].monthlyMax

\* night_shift_codes: the night_rest codes that are shift codes
night_shift_codes == DOMAIN night_rest \cap Elems(all_shift_codes)

\* relevant_night_codes of person p: the night codes p can work whose
\* recovery count is positive
relevant_night_codes(dat, rq, p) ==
    {code \in night_shift_codes :
        /\ code \in rq.people[p + 1].canWork
        /\ Get(night_recovery_counts(dat), code, 0) > 0}

\* recovery_sources with a recovery window one day short
RecoverySourcesShort(dat, rq, p, d) ==
    {src \in (0..(num_days - 1)) \X relevant_night_codes(dat, rq, p) :
        /\ src[1] < d
        /\ d - src[1] < Get(night_recovery_counts(dat), src[2], 0)}

\* recovery_sources of day d: the (prev_day, night_code) of the night
\* shifts whose recovery window reaches d
recovery_sources(dat, rq, p, d) ==
    {src \in (0..(num_days - 1)) \X relevant_night_codes(dat, rq, p) :
        /\ src[1] < d
        /\ d - src[1] <= Get(night_recovery_counts(dat), src[2], 0)}

\* lines 329-351: night_recovery[p, d] is 1 exactly when some source is 1;
\* without sources it is 0 from the carried window on
NightRecoveryDefinition(dat, rq, p, row) ==
    \A d \in 1..(num_days - 1) :
        Known(row, d) =>
            LET sources == recovery_sources(dat, rq, p, d)
            IN  IF sources # {}
                THEN /\ row[d + 1].rec =>
                           \E src \in sources : Work(row, src[1], src[2]) = 1
                     /\ \A src \in sources :
                           Work(row, src[1], src[2]) = 1 => row[d + 1].rec
                ELSE d >= initial_recovery_window(dat, rq, p)
                         => ~row[d + 1].rec

\* lines 363-376: after night_code on day d no shift on days d+1..d+rest_days;
\* a day with d + rest_days >= num_days is skipped altogether (lines 369-370)
NightRest(rq, p, row) ==
    \A night_code \in DOMAIN night_rest :
        night_code \in rq.people[p + 1].canWork =>
            \A d \in 0..(num_days - 1) :
                ~(d + night_rest[night_code] >= num_days) =>
                    \A offset \in 1..night_rest[night_code] :
                        Known(row, d + offset) =>
                            (Work(row, d, night_code) = 1
                                => row[d + offset + 1].work = {})

\* the consecutive limit counting assigned shifts only
ConsecutiveLimitShiftsOnly(rq, p, row) ==
    LET consec_max == rq.people[p + 1].consecMax
    IN  consec_max > 0 =>
            \A d \in 0..(num_days - consec_max - 1) :
                Known(row, d + consec_max) =>
                    LET WorkedOn(day) == Worked(row, day)
                    IN  SumOver(WorkedOn, d, d + consec_max) <= consec_max

\* lines 378-396: consecutive working days limit; recovery days and paid
\* leave count, consec_max <= 0 means no limit
ConsecutiveLimit(rq, p, row) ==
    LET consec_max == rq.people[p + 1].consecMax
    IN  consec_max > 0 =>
            \A d \in 0..(num_days - consec_max - 1) :
                Known(row, d + consec_max) =>
                    LET WorkedOn(day) == Worked(row, day)
                        RecoveryOn(day) == Recovery(row, day)
                        window == SumOver(WorkedOn, d, d + consec_max)
                        window_recovery ==
                            SumOver(RecoveryOn, d, d + consec_max)
                        paid_leave_in_window ==
                            Cardinality({day \in d..(d + consec_max) :
                                           day \in paid_leave_days(rq, p)})
                    IN  window + window_recovery + paid_leave_in_window
                            <= consec_max

\* the constraints over several days of one person
RowConstraints(dat, rq, p, row) ==
    /\ MonthlyBounds(rq, p, row)
    /\ NightRecoveryDefinition(dat, rq, p, row)
    /\ NightRest(rq, p, row)
    /\ ConsecutiveLimit(rq, p, row)

\* the values a (person, day) may take
AllCells == [work : SUBSET Elems(all_shift_codes), rec : BOOLEAN]

CellChoices(dat, rq, p, d) ==
    {cell \in AllCells : CellConstraints(dat, rq, p, d, cell)}

\* the assignments of the first n days of person p that satisfy every
\* constraint on them
RECURSIVE RowsOfLen(_, _, _, _)
RowsOfLen(dat, rq, p, n) ==
    IF n = 0 THEN {<<>>}
    ELSE {row \in {Append(shorter, cell) :
                      shorter \in RowsOfLen(dat, rq, p, n - 1),
                      cell \in CellChoices(dat, rq, p, n - 1)} :
             RowConstraints(dat, rq, p, row)}

\* the feasible assignments of the first n people, person by person
RECURSIVE SolutionsOf(_, _, _)
SolutionsOf(dat, rq, n) ==
    IF n = 0 THEN {<<>>}
    ELSE {Append(others, row) :
             others \in SolutionsOf(dat, rq, n - 1),
             row \in RowsOfLen(dat, rq, n - 1, num_days)}

\* the window labels of _build_time_ranges with their intervals, in order
WindowLabels == <<"7-9", "9-15", "16-18", "18-24", "0-7">>

intervals ==
    [label \in Elems(WindowLabels) |->
        CASE label = "7-9" -> <<7, 9>>
          [] label = "9-15" -> <<9, 15>>
          [] label = "16-18" -> <<16, 18>>
          [] label = "18-24" -> <<18, 24>>
          [] label = "0-7" -> <<24, 31>>]

\* _covers_interval(shift_start, shift_end, interval)
covers_interval(shift_start, shift_end, interval) ==
    LET start == interval[1]
        end == interval[2]
    IN  IF start >= 24
        THEN IF shift_end <= 24 THEN FALSE
             ELSE shift_start < end /\ shift_end > start
        ELSE IF end <= 24
        THEN shift_start < end /\ Min(shift_end, 24) > start
        ELSE shift_start < end /\ shift_end > start

\* the codes of a list of shifts that satisfy Keep, in list order (a code
\* is listed once: the codes of a shift table are the keys of a dict)
RECURSIVE CodesWhere(_, _, _)
CodesWhere(Keep(_), shifts, i) ==
    IF i > Len(shifts) THEN <<>>
    ELSE (IF Keep(shifts[i]) THEN <<shifts[i].code>> ELSE <<>>)
         \o CodesWhere(Keep, shifts, i + 1)

\* _build_time_ranges(shifts)[0]: same_day
same_day(shifts) ==
    [label \in Elems(WindowLabels) |->
        LET Covers(shift) ==
                covers_interval(shift.start, shift.end, intervals[label])
        IN  CodesWhere(Covers, shifts, 1)]

\* _build_time_ranges(shifts)[1]: carry_over
carry_over(shifts) ==
    [label \in Elems(WindowLabels) |->
        LET range_start == intervals[label][1]
            range_end == intervals[label][2]
            Carries(shift) ==
                /\ ~(shift.end <= 24)
                /\ ~(range_start >= 24)
                /\ Max(shift.start, 24) - 24 < range_end
                /\ shift.end - 24 > range_start
        IN  CodesWhere(Carries, shifts, 1)]

\* time_ranges, carry_over_ranges = _build_time_ranges(shifts)
time_ranges == same_day(Shifts)
carry_over_ranges == carry_over(Shifts)

\* need_value = data["needTemplate"][day_type][label]: the reference data
\* asks for one person in every window of every day
need_value(d, label) == 1

\* previous_carry_counts[label]
previous_carry_counts(dat, rq, label) ==
    LET carry == previous_month_carry(dat, rq)
        codes == carry_over_ranges[label]
        CountOf(i) == Len(Get(carry, codes[i], <<>>))
    IN  SumOver(CountOf, 1, Len(codes))

\* lines 437-453: the head count `actual` of window label on day d
actual(dat, rq, sol, d, label) ==
    LET WorkingSameDay(p1) ==
            Cardinality(sol[p1][d + 1].work \cap Elems(time_ranges[label]))
        WorkingDayBefore(p1) ==
            Cardinality(sol[p1][d].work \cap Elems(carry_over_ranges[label]))
    IN  SumOver(WorkingSameDay, 1, Len(sol))
        + (IF d > 0 THEN SumOver(WorkingDayBefore, 1, Len(sol))
           ELSE previous_carry_counts(dat, rq, label))

\* lines 454-457: shortage in [0, need_value] and overstaff in
\* [0, num_people] must exist with actual + shortage >= need_value and
\* actual - overstaff <= need_value
CoverageVariables(dat, rq, sol) ==
    \A d \in 0..(num_days - 1), label \in Elems(WindowLabels) :
        LET act == actual(dat, rq, sol, d, label)
        IN  /\ \E shortage \in 0..need_value(d, label) :
                  act + shortage >= need_value(d, label)
            /\ \E overstaff \in 0..Len(rq.people) :
                  act - overstaff <= need_value(d, label)

\* the two people of the built-in conflict ("柴田" and "森川孝" in the source)
Shibata == "shibata"
Morikawa == "morikawa"

\* the rules of one conflict entry as (first_shifts, second_shifts,
\* day_offset), keeping the known shift codes and dropping a rule that is
\* left without shifts on either side
NormalizedRules(conflict) ==
    LET IsShiftCode(s) == s \in Elems(all_shift_codes)
        Normalized(rule) ==
            <<SelectSeq(rule.firstPersonShifts, IsShiftCode),
              SelectSeq(rule.secondPersonShifts, IsShiftCode),
              rule.dayOffset>>
        HasShifts(rule) == rule[1] # <<>> /\ rule[2] # <<>>
    IN  SelectSeq([i \in 1..Len(conflict.rules) |->
                      Normalized(conflict.rules[i])], HasShifts)

\* the built-in rules: Shibata on NC forbids Morikawa on NA the same day and
\* on EA or NA the next day
FallbackConflict ==
    <<Shibata, Morikawa, <<<<<<"NC">>, <<"NA">>, 0>>,
                           <<<<"NC">>, <<"EA", "NA">>, 1>>>>>>

\* lines 214-261: normalized_conflicts, the entries of the reference data
\* followed by the request's, then the built-in entry when both people are
\* rostered and no entry names that pair
normalized_conflicts(dat, rq) ==
    LET pair_conflict_sources ==
            dat.pairShiftConflicts \o rq.pairShiftConflicts
        Entry(conflict) ==
            IF Len(conflict.people) # 2 THEN <<"", "", <<>>>>
            ELSE <<conflict.people[1], conflict.people[2],
                   NormalizedRules(conflict)>>
        HasRules(entry) == entry[3] # <<>>
        kept == SelectSeq([i \in 1..Len(pair_conflict_sources) |->
                              Entry(pair_conflict_sources[i])], HasRules)
    IN  IF /\ person_index(rq, Morikawa) # -1
           /\ person_index(rq, Shibata) # -1
           /\ ~\E i \in 1..Len(kept) :
                  {kept[i][1], kept[i][2]} = {Morikawa, Shibata}
        THEN Append(kept, FallbackConflict)
        ELSE kept

\* the pair conflict constraints applied to the same day only
PairConflictsIgnoringOffset(dat, rq, sol) ==
    LET conflicts == normalized_conflicts(dat, rq)
    IN  \A i \in 1..Len(conflicts) :
            LET first_idx == person_index(rq, conflicts[i][1])
                second_idx == person_index(rq, conflicts[i][2])
                rules == conflicts[i][3]
            IN  (first_idx # -1 /\ second_idx # -1) =>
                    \A r \in 1..Len(rules), d \in 0..(num_days - 1) :
                        \A first_shift \in Elems(rules[r][1]),
                           second_shift \in Elems(rules[r][2]) :
                            Work(sol[first_idx + 1], d, first_shift)
                              + Work(sol[second_idx + 1], d, second_shift)
                                <= 1

\* lines 263-279: work[first, d, s1] + work[second, d + day_offset, s2] <= 1
\* for every rule, every day whose target day is in the month and every
\* pair of shifts
PairConflicts(dat, rq, sol) ==
    LET conflicts == normalized_conflicts(dat, rq)
    IN  \A i \in 1..Len(conflicts) :
            LET first_idx == person_index(rq, conflicts[i][1])
                second_idx == person_index(rq, conflicts[i][2])
                rules == conflicts[i][3]
            IN  (first_idx # -1 /\ second_idx # -1) =>
                    \A r \in 1..Len(rules), d \in 0..(num_days - 1) :
                        LET target_day == d + rules[r][3]
                        IN  ~(target_day < 0 \/ target_day >= num_days) =>
                                \A first_shift \in Elems(rules[r][1]),
                                   second_shift \in Elems(rules[r][2]) :
                                    Work(sol[first_idx + 1], d, first_shift)
                                      + Work(sol[second_idx + 1], target_day,
                                             second_shift) <= 1

\* the assignments that satisfy every hard constraint of the model
FeasibleSolutions(dat, rq) ==
    {sol \in SolutionsOf(dat, rq, Len(rq.people)) :
        /\ PairConflicts(dat, rq, sol)
        /\ CoverageVariables(dat, rq, sol)}

\* lines 526-543: the renderer
RenderCell(rq, p, row, d) ==
    IF row[d + 1].rec THEN RecoveryToken
    ELSE IF d \in paid_leave_days(rq, p) THEN PaidLeaveToken
    ELSE IF row[d + 1].work = {} THEN None
    ELSE all_shift_codes[CHOOSE i \in 1..Len(all_shift_codes) :
            /\ all_shift_codes[i] \in row[d + 1].work
            /\ \A j \in 1..(i - 1) : all_shift_codes[j] \notin row[d + 1].work]

Render(rq, sol) ==
    [id \in {rq.people[i].id : i \in 1..Len(rq.people)} |->
        LET p == person_index(rq, id)
        IN  [d1 \in 1..num_days |-> RenderCell(rq, p, sol[p + 1], d1 - 1)]]

InitSolverIdle ==
    /\ data = [nightRecoveryCounts |-> <<>>, previousMonthNightCarry |-> <<>>,
               pairShiftConflicts |-> <<>>]
    /\ schedule_request = [people |-> <<>>]
    /\ solution = <<>>
    /\ status = "NOT_RUN"
    /\ rendered = EmptySchedule

\* validate_schedule_rules has not been called
InitValidatorIdle ==
    /\ validator_schedule = EmptySchedule
    /\ validator_people = <<>>
    /\ violations = <<>>
    /\ validatorDone = FALSE

\* _build_time_ranges has not been called
InitMapperIdle ==
    /\ mapper_shifts = <<>>
    /\ mapper_same_day = <<>>
    /\ mapper_carry_over = <<>>
    /\ mapperDone = FALSE

-----------------------------------------------------------------------------
(* state.py, index.py: the schedule state store and the save handlers *)

\* the request threads of the server (FastAPI runs sync handlers in a pool)
Handlers == {"h1", "h2"}

\* the people of the reference data, as the store's schedules name them
StorePerson == "a"

\* the schedules clients send to the store
RequestSchedules ==
    { [p \in {StorePerson} |-> <<"EA", None>>],
      [p \in {StorePerson} |-> <<"EA", "EA", "EA">>] }

BaseVersions == {NoVersion} \cup {SomeVersion(v) : v \in 1..MaxBaseVersion}

Idle == [kind |-> "none"]

\* STATE_FILE: absent, truncated by open("w"), or holding a complete state
FileAbsent == [kind |-> "absent"]
FileEmpty == [kind |-> "empty"]
FileJson(state) == [kind |-> "json", state |-> state]

InitStore ==
    /\ file = FileAbsent
    /\ pc = [h \in Handlers |-> "idle"]
    /\ request = [h \in Handlers |-> Idle]
    /\ current_state = [h \in Handlers |-> Idle]
    /\ response = [h \in Handlers |-> Idle]
    /\ started = 0
    /\ persisted = <<>>

\* a client posts /api/save-draft or /api/finalize-schedule
Receive(h) ==
    /\ pc[h] = "idle"
    /\ started < MaxRequests
    /\ \E kind \in {"save_draft", "finalize_schedule"},
          schedule \in RequestSchedules, baseVersion \in BaseVersions :
          request' = [request EXCEPT ![h] =
                        [kind |-> kind, schedule |-> schedule,
                         baseVersion |-> baseVersion]]
    /\ pc' = [pc EXCEPT ![h] = "load"]
    /\ started' = started + 1
    /\ UNCHANGED <<file, current_state, response, persisted, diffVars, solverVars,
                   validatorVars, mapperVars>>

\* load_schedule_state()
LoadScheduleState(h) ==
    /\ pc[h] = "load"
    /\ CASE file.kind = "absent" ->
              /\ current_state' = [current_state EXCEPT ![h] = DefaultState]
              /\ pc' = [pc EXCEPT ![h] = "enforce"]
              /\ UNCHANGED response
         [] file.kind = "json" ->
              /\ current_state' = [current_state EXCEPT ![h] = file.state]
              /\ pc' = [pc EXCEPT ![h] = "enforce"]
              /\ UNCHANGED response
         [] file.kind = "empty" ->
              \* json.load raises on the truncated file
              /\ response' = [response EXCEPT ![h] =
                    [status |-> 500, reason |-> "LOAD_FAILED"]]
              /\ pc' = [pc EXCEPT ![h] = "done"]
              /\ UNCHANGED current_state
    /\ UNCHANGED <<file, request, started, persisted, diffVars, solverVars,
                   validatorVars, mapperVars>>

\* the outcome of enforce_version_and_lock(request, current_state):
\* the HTTPException it raises, or Idle when it returns None
EnforceVersionFirst(req, cur) ==
    IF req.baseVersion # NoVersion /\ req.baseVersion # SomeVersion(cur.version)
    THEN [status |-> 409, reason |-> "VERSION_CONFLICT",
          currentVersion |-> cur.version,
          changes |-> compute_schedule_changes(req.schedule, cur.schedule)]
    ELSE IF cur.locked
    THEN [status |-> 423, reason |-> "LOCKED", currentVersion |-> cur.version]
    ELSE Idle

EnforceDiffSwapped(req, cur) ==
    IF cur.locked
    THEN [status |-> 423, reason |-> "LOCKED", currentVersion |-> cur.version]
    ELSE IF req.baseVersion # NoVersion
            /\ req.baseVersion # SomeVersion(cur.version)
    THEN [status |-> 409, reason |-> "VERSION_CONFLICT",
          currentVersion |-> cur.version,
          changes |-> compute_schedule_changes(cur.schedule, req.schedule)]
    ELSE Idle

enforce_version_and_lock(req, cur) ==
    IF cur.locked
    THEN [status |-> 423, reason |-> "LOCKED", currentVersion |-> cur.version]
    ELSE IF req.baseVersion # NoVersion
            /\ req.baseVersion # SomeVersion(cur.version)
    THEN [status |-> 409, reason |-> "VERSION_CONFLICT",
          currentVersion |-> cur.version,
          changes |-> compute_schedule_changes(req.schedule, cur.schedule)]
    ELSE Idle

\* next_state of save_draft (locked=False) and finalize_schedule (locked=True)
NextStateSameVersion(req, cur) ==
    [version |-> cur.version,
     locked |-> (req.kind = "finalize_schedule"),
     schedule |-> req.schedule]

next_state(req, cur) ==
    [version |-> cur.version + 1,
     locked |-> (req.kind = "finalize_schedule"),
     schedule |-> req.schedule]

\* build_save_response(next_state, changes)
build_save_response(state, chg) ==
    [status |-> 200, version |-> state.version, locked |-> state.locked,
     changes |-> chg]

\* the handler calls enforce_version_and_lock; an exception ends the request
Enforce(h) ==
    /\ pc[h] = "enforce"
    /\ LET raised == enforce_version_and_lock(request[h], current_state[h])
       IN  IF raised # Idle
           THEN /\ response' = [response EXCEPT ![h] = raised]
                /\ pc' = [pc EXCEPT ![h] = "done"]
           ELSE /\ pc' = [pc EXCEPT ![h] = "save"]
                /\ UNCHANGED response
    /\ UNCHANGED <<file, request, current_state, started, persisted, diffVars, solverVars,
                   validatorVars, mapperVars>>

\* save_schedule_state, first half: STATE_FILE.open("w") truncates the file
SaveOpen(h) ==
    /\ pc[h] = "save"
    /\ file' = FileEmpty
    /\ pc' = [pc EXCEPT ![h] = "write"]
    /\ UNCHANGED <<request, current_state, response, started, persisted,
                   diffVars, solverVars,
                   validatorVars, mapperVars>>

\* save_schedule_state, second half: json.dump and close; then the handler
\* returns build_save_response(next_state, changes)
SaveWrite(h) ==
    /\ pc[h] = "write"
    /\ LET next == next_state(request[h], current_state[h])
           chg == compute_schedule_changes(current_state[h].schedule,
                                           request[h].schedule)
       IN  /\ file' = FileJson(next)
           /\ persisted' = Append(persisted, next)
           /\ response' = [response EXCEPT ![h] =
                              build_save_response(next, chg)]
    /\ pc' = [pc EXCEPT ![h] = "done"]
    /\ UNCHANGED <<request, current_state, started, diffVars, solverVars,
                   validatorVars, mapperVars>>

\* the response is sent and the thread returns to the pool
Respond(h) ==
    /\ pc[h] = "done"
    /\ pc' = [pc EXCEPT ![h] = "idle"]
    /\ request' = [request EXCEPT ![h] = Idle]
    /\ current_state' = [current_state EXCEPT ![h] = Idle]
    /\ response' = [response EXCEPT ![h] = Idle]
    /\ UNCHANGED <<file, started, persisted, diffVars, solverVars,
                   validatorVars, mapperVars>>

\* the server process dies between open("w") and the write, and restarts
Crash ==
    /\ \E h \in Handlers : pc[h] = "write"
    /\ pc' = [h \in Handlers |-> "idle"]
    /\ request' = [h \in Handlers |-> Idle]
    /\ current_state' = [h \in Handlers |-> Idle]
    /\ response' = [h \in Handlers |-> Idle]
    /\ UNCHANGED <<file, started, persisted, diffVars, solverVars,
                   validatorVars, mapperVars>>

InitDiffIdle ==
    /\ previous = EmptySchedule
    /\ updated = EmptySchedule
    /\ changes = <<>>
    /\ diffDone = FALSE

Init ==
    /\ InitStore
    /\ InitDiffIdle
    /\ InitSolverIdle
    /\ InitValidatorIdle
    /\ InitMapperIdle

Next ==
    \/ \E h \in Handlers : Receive(h)
    \/ \E h \in Handlers : LoadScheduleState(h)
    \/ \E h \in Handlers : Enforce(h)
    \/ \E h \in Handlers : SaveOpen(h)
    \/ \E h \in Handlers : SaveWrite(h)
    \/ \E h \in Handlers : Respond(h)
    \/ Crash

Spec == Init /\ [][Next]_vars

-----------------------------------------------------------------------------
(* The schedule store under concurrent handlers: claims C1 to C7 *)

\* the step in which handler h leaves enforce_version_and_lock
LeavesEnforce(h) == pc[h] = "enforce" /\ pc'[h] \notin {"enforce", "idle"}

\* the step in which handler h completes save_schedule_state
CompletesSave(h) == pc[h] = "write" /\ pc'[h] = "done"

BaseVersionMatches(h) ==
    request[h].baseVersion \in {NoVersion,
                                SomeVersion(current_state[h].version)}

\* C1: the locked flag is terminal. Once a save has persisted a state with
\* locked = true, every state persisted later is that same state (locked,
\* version and schedule never change again), under any interleaving of the
\* save handlers.
C1_LockedIsTerminal ==
    \A i, j \in 1..Len(persisted) :
        (i < j /\ persisted[i].locked) => persisted[j] = persisted[i]

\* C2: the persisted version is monotonic. Every completed save writes a
\* version strictly greater than every version persisted before it, so no
\* two saves persist the same version number.
C2_VersionStrictlyIncreases ==
    \A i, j \in 1..Len(persisted) :
        i < j => persisted[i].version < persisted[j].version

\* C3: save is atomic. No load, whether it runs concurrently with a save
\* or after a crash in the middle of one, finds the state file empty,
\* truncated or partially written: no handler ends with the 500 of a
\* failed load.
C3_LoadNeverSeesTornFile ==
    \A h \in Handlers :
        pc[h] = "done" => response[h].status # 500

\* C4: a handler that loaded a locked state fails with 423 LOCKED carrying
\* currentVersion, whatever its baseVersion, and writes nothing.
C4_LockedIsRejected ==
    [][\A h \in Handlers :
          (LeavesEnforce(h) /\ current_state[h].locked) =>
              /\ pc'[h] = "done"
              /\ response'[h] = [status |-> 423, reason |-> "LOCKED",
                                 currentVersion |-> current_state[h].version]
              /\ file' = file
              /\ persisted' = persisted]_vars

\* C4 witness: a request whose baseVersion differs from the stored version
\* was answered 423, not 409
C4_Witness ==
    \E h \in Handlers :
        /\ pc[h] = "done"
        /\ response[h].status = 423
        /\ request[h].kind = "finalize_schedule"
        /\ ~BaseVersionMatches(h)

\* C5: a handler that loaded an unlocked state and whose request gives a
\* baseVersion different from the stored version fails with 409
\* VERSION_CONFLICT carrying currentVersion and
\* changes = diff(request.schedule, current.schedule), and writes nothing.
C5_StaleBaseVersionIsRejected ==
    [][\A h \in Handlers :
          (LeavesEnforce(h) /\ ~current_state[h].locked
                            /\ ~BaseVersionMatches(h)) =>
              /\ pc'[h] = "done"
              /\ response'[h] =
                   [status |-> 409, reason |-> "VERSION_CONFLICT",
                    currentVersion |-> current_state[h].version,
                    changes |-> compute_schedule_changes(
                                    request[h].schedule,
                                    current_state[h].schedule)]
              /\ file' = file
              /\ persisted' = persisted]_vars

\* C5 witness: a 409 whose diff is not empty and reads request as previous
C5_Witness ==
    \E h \in Handlers :
        /\ pc[h] = "done"
        /\ response[h].status = 409
        /\ response[h].changes # <<>>
        /\ response[h].changes[1].previous = "EA"
        /\ response[h].changes[1].updated = None
        /\ file.kind = "json"
        /\ file.state = current_state[h]

\* C6: a handler that loaded an unlocked state and whose baseVersion is
\* absent or equal to the stored version goes on to save; its save persists
\* {version: current + 1, locked: (the handler is finalize), schedule:
\* request.schedule}, and the response carries that version and flag and
\* changes = diff(current.schedule, request.schedule), which is [] when the
\* two schedules are identical.
C6_SaveSucceeds ==
    [][\A h \in Handlers :
          /\ (LeavesEnforce(h) /\ ~current_state[h].locked
                               /\ BaseVersionMatches(h)) => pc'[h] = "save"
          /\ CompletesSave(h) =>
                /\ ~current_state[h].locked /\ BaseVersionMatches(h)
                /\ file' = FileJson(
                      [version |-> current_state[h].version + 1,
                       locked |-> (request[h].kind = "finalize_schedule"),
                       schedule |-> request[h].schedule])
                /\ response'[h] =
                     [status |-> 200,
                      version |-> current_state[h].version + 1,
                      locked |-> (request[h].kind = "finalize_schedule"),
                      changes |-> compute_schedule_changes(
                                      current_state[h].schedule,
                                      request[h].schedule)]
                /\ (current_state[h].schedule = request[h].schedule
                      => response'[h].changes = <<>>)]_vars

\* C6 witness: a finalize of a schedule identical to the current one
\* succeeded with no changes, on a matching baseVersion
C6_Witness ==
    \E h \in Handlers :
        /\ pc[h] = "done"
        /\ response[h].status = 200
        /\ response[h].locked
        /\ response[h].changes = <<>>
        /\ request[h].baseVersion = SomeVersion(current_state[h].version)
        /\ request[h].schedule = current_state[h].schedule
        /\ file = FileJson([version |-> response[h].version, locked |-> TRUE,
                            schedule |-> request[h].schedule])

\* C7: every persisted schedule has passed the rule post-validator: the
\* state file never holds a schedule in which some person exceeds
\* consecMax, weeklyMax or monthlyMax.
C7_PersistedScheduleIsValid ==
    file.kind = "json" =>
        validate_schedule_rules(file.state.schedule, RefPeople, Shifts,
                                RefDays, RefWeekdayOfDay1) = <<>>

-----------------------------------------------------------------------------
(* The schedule diff as a pure function: claim C8 *)

\* the person ids and cells of the schedules given to the diff
DiffPeople == {"a", "b"}
Cells == {None, "EA", "NA"}

\* day arrays of up to n cells
DaySeqs(n) == UNION {[1..k -> Cells] : k \in 0..n}

\* the schedules: any subset of the people; "a" has up to MaxLen days and
\* "b" up to MaxLen - 1, which keeps the set of input pairs small
DiffSchedules ==
    UNION {{s \in [ids -> DaySeqs(MaxLen)] :
               "b" \in ids => Len(s["b"]) < MaxLen} :
           ids \in SUBSET DiffPeople}

InitStoreIdle == InitStore

InitDiff ==
    /\ InitStoreIdle
    /\ InitSolverIdle
    /\ InitValidatorIdle
    /\ InitMapperIdle
    /\ previous \in DiffSchedules
    /\ updated \in DiffSchedules
    /\ changes = <<>>
    /\ diffDone = FALSE

\* compute_schedule_changes(previous, updated) is called
ComputeScheduleChanges ==
    /\ ~diffDone
    /\ changes' = compute_schedule_changes(previous, updated)
    /\ diffDone' = TRUE
    /\ UNCHANGED <<previous, updated, storeVars, solverVars, validatorVars,
                   mapperVars>>

NextDiff == ComputeScheduleChanges

SpecDiff == InitDiff /\ [][NextDiff]_vars

\* the cell of person p on day i (0-based): a missing person or an index
\* past the end of the array is null
CellAt(schedule, p, i) ==
    IF p \in DOMAIN schedule /\ i < Len(schedule[p])
    THEN schedule[p][i + 1] ELSE None

LenOf(schedule, p) == IF p \in DOMAIN schedule THEN Len(schedule[p]) ELSE 0

\* the (person, dayIndex) pairs whose cells differ
DifferingCells(prev, upd) ==
    {pd \in (DOMAIN prev \cup DOMAIN upd) \X (0..(MaxLen + 1)) :
        /\ pd[2] < Max(LenOf(prev, pd[1]), LenOf(upd, pd[1]))
        /\ CellAt(prev, pd[1], pd[2]) # CellAt(upd, pd[1], pd[2])}

\* C8: diff(prev, next) holds exactly one change {personId, dayIndex,
\* previous, updated} for every (person, dayIndex) whose cells differ, and
\* nothing else, ordered by sorted personId and then ascending dayIndex;
\* missing people and indexes past the end count as null, so diff(s, s) is
\* empty and an all-null or empty array against an absent person gives no
\* change.
C8_DiffIsExactlyTheDifferingCells ==
    diffDone =>
        /\ {<<changes[k].personId, changes[k].dayIndex>> :
                k \in 1..Len(changes)} = DifferingCells(previous, updated)
        /\ Len(changes) = Cardinality(DifferingCells(previous, updated))
        /\ \A k \in 1..Len(changes) :
              /\ changes[k].previous =
                    CellAt(previous, changes[k].personId, changes[k].dayIndex)
              /\ changes[k].updated =
                    CellAt(updated, changes[k].personId, changes[k].dayIndex)
        /\ \A k, l \in 1..Len(changes) :
              k < l =>
                \/ Rank(changes[k].personId) < Rank(changes[l].personId)
                \/ /\ changes[k].personId = changes[l].personId
                   /\ changes[k].dayIndex < changes[l].dayIndex
        /\ (previous = updated => changes = <<>>)
        /\ \A p \in DOMAIN updated \ DOMAIN previous :
              (\A i \in 1..Len(updated[p]) : updated[p][i] = None)
                  => \A k \in 1..Len(changes) : changes[k].personId # p
        /\ \A p \in DOMAIN previous \ DOMAIN updated :
              (\A i \in 1..Len(previous[p]) : previous[p][i] = None)
                  => \A k \in 1..Len(changes) : changes[k].personId # p

\* C8 witness: two people changed, the second array longer than the first,
\* and a person with an all-null array present on one side only
C8_Witness ==
    /\ diffDone
    /\ "a" \in DOMAIN previous
    /\ Len(changes) = 3
    /\ changes[1].personId = "a" /\ changes[2].personId = "a"
    /\ changes[3].personId = "b"
    /\ changes[2].dayIndex = 1 /\ changes[2].previous = None
    /\ Len(previous["a"]) = 1
    /\ changes[1].previous = "EA" /\ changes[1].updated = "NA"
    /\ "b" \notin DOMAIN previous

-----------------------------------------------------------------------------
(* The solver on bounded requests: claims C9 and C10 *)

\* the reference data: nightRecoveryCounts absent or overriding NA
SolverData ==
    {[nightRecoveryCounts |-> counts, previousMonthNightCarry |-> <<>>,
      pairShiftConflicts |-> <<>>] :
        counts \in {<<>>, [c \in {"NA"} |-> 1]}}

\* the rosters: one person who can work the early shift only, or the early
\* and the NA night shift
SolverPeople ==
    {<<[id |-> "a", canWork |-> can, fixedOffWeekdays |-> {},
        monthlyMin |-> bounds[1], monthlyMax |-> bounds[2],
        consecMax |-> consec]>> :
        can \in {{"EA"}, {"EA", "NA"}},
        bounds \in {<<0, num_days>>, <<1, 3>>, <<3, 3>>},
        consec \in {0, 2}}

\* the requests; previousMonthNightCarry is None (<<>>) or lists "a" under NA
SolverRequests ==
    {[people |-> people, wishOffs |-> wish, paidLeaves |-> paid,
      previousMonthNightCarry |-> carry, pairShiftConflicts |-> <<>>] :
        people \in SolverPeople,
        wish \in {<<>>, [id \in {"a"} |-> {1}]},
        paid \in {<<>>, [id \in {"a"} |-> {2}]},
        carry \in {<<>>, <<[c \in {"NA"} |-> <<"a">>]>>}}

InitSolver ==
    /\ InitStore
    /\ InitDiffIdle
    /\ InitValidatorIdle
    /\ InitMapperIdle
    /\ data \in SolverData
    /\ schedule_request \in SolverRequests
    /\ solution = <<>>
    /\ status = "NOT_RUN"
    /\ rendered = EmptySchedule

\* solver.Solve finds an assignment satisfying the hard constraints (the
\* incumbent when the time budget ends; the optimal ones are among them) and
\* the schedule is rendered from it
SolveAccepted ==
    /\ status = "NOT_RUN"
    /\ \E sol \in FeasibleSolutions(data, schedule_request) :
          /\ solution' = sol
          /\ rendered' = Render(schedule_request, sol)
    /\ status' = "FEASIBLE"
    /\ UNCHANGED <<data, schedule_request, storeVars, diffVars,
                   validatorVars, mapperVars>>

\* the hard constraints have no solution: the schedule stays empty
SolveInfeasible ==
    /\ status = "NOT_RUN"
    /\ FeasibleSolutions(data, schedule_request) = {}
    /\ status' = "INFEASIBLE"
    /\ UNCHANGED <<data, schedule_request, solution, rendered, storeVars,
                   diffVars, validatorVars, mapperVars>>

NextSolver == SolveAccepted \/ SolveInfeasible

SpecSolver == InitSolver /\ [][NextSolver]_vars

Accepted == status \in {"OPTIMAL", "FEASIBLE"}

People == 0..(Len(schedule_request.people) - 1)

\* C9: night rest. In every accepted solution, a person who works night
\* code c on day d has no shift on any day d + k with 1 <= k <= nightRest[c]
\* and d + k < D, for every d in [0, D), the last days of the month included.
C9_NightRestOnEveryDay ==
    Accepted =>
        \A p \in People, c \in DOMAIN night_rest, d \in 0..(num_days - 1) :
            Work(solution[p + 1], d, c) = 1 =>
                \A k \in 1..night_rest[c] :
                    d + k < num_days => solution[p + 1][d + k + 1].work = {}

\* a person is listed under code c in the request's previousMonthNightCarry
CarriedUnder(p, c) ==
    /\ schedule_request.previousMonthNightCarry # <<>>
    /\ c \in DOMAIN schedule_request.previousMonthNightCarry[1]
    /\ schedule_request.people[p + 1].id
           \in Elems(schedule_request.previousMonthNightCarry[1][c])

\* recoveryCount(c): nightRecoveryCounts[c] clamped into [0, nightRest[c]],
\* nightRest[c] when it is not given
RecoveryCount(c) ==
    IF c \in DOMAIN data.nightRecoveryCounts
    THEN Max(0, Min(data.nightRecoveryCounts[c], night_rest[c]))
    ELSE night_rest[c]

\* C10: carry-over from the previous month. In every accepted solution a
\* rostered person carried under night code c has no shift on days
\* 0..nightRest[c] (clipped to the month), day 0 is rendered as the recovery
\* token when recoveryCount(c) >= 1, and so are days 1..recoveryCount(c)-1.
C10_CarriedPersonRests ==
    Accepted =>
        \A p \in People, c \in DOMAIN night_rest :
            CarriedUnder(p, c) =>
                LET id == schedule_request.people[p + 1].id
                IN  /\ \A d \in 0..Min(night_rest[c], num_days - 1) :
                          solution[p + 1][d + 1].work = {}
                    /\ RecoveryCount(c) >= 1
                          => rendered[id][1] = RecoveryToken
                    /\ \A d \in 1..(RecoveryCount(c) - 1) :
                          d < num_days => rendered[id][d + 1] = RecoveryToken

\* C10 witness: an accepted solution for a person carried under NA with a
\* recovery count of 2: days 0 and 1 are recovery tokens, day 2 is off and
\* the person works on day 3
C10_Witness ==
    /\ Accepted
    /\ CarriedUnder(0, "NA")
    /\ RecoveryCount("NA") = 2
    /\ rendered["a"][1] = RecoveryToken
    /\ rendered["a"][2] = RecoveryToken
    /\ rendered["a"][3] = None
    /\ rendered["a"][4] = "EA"

\* p worked a night code it can work on a day whose recovery window
\* reaches d
WorkedNightBefore(p, d) ==
    \E c \in DOMAIN night_rest, dd \in 0..(num_days - 1) :
        /\ c \in schedule_request.people[p + 1].canWork
        /\ d - RecoveryCount(c) <= dd
        /\ dd <= d - 1
        /\ Work(solution[p + 1], dd, c) = 1

\* p is carried under a code whose recovery count reaches d
CarriedInto(p, d) ==
    \E c \in DOMAIN night_rest : CarriedUnder(p, c) /\ d < RecoveryCount(c)

\* C11: in every rendered schedule, cell (p, d) is the recovery token if and
\* only if p worked a night code c of canWork(p) on a day d' with
\* d - recoveryCount(c) <= d' <= d - 1, or p is carried under a code c with
\* d < recoveryCount(c).
C11_RecoveryTokenIffSource ==
    Accepted =>
        \A p \in People, d \in 0..(num_days - 1) :
            (rendered[schedule_request.people[p + 1].id][d + 1]
                 = RecoveryToken)
            <=> (WorkedNightBefore(p, d) \/ CarriedInto(p, d))

\* C11 witness: with a recovery count of 2 a person who is not carried works
\* NA on day 0; days 1 and 2 are recovery tokens and day 3 is not
C11_Witness ==
    /\ Accepted
    /\ ~CarriedUnder(0, "NA")
    /\ RecoveryCount("NA") = 2
    /\ Work(solution[1], 0, "NA") = 1
    /\ rendered["a"] = <<"NA", RecoveryToken, RecoveryToken, "EA">>

\* the number of non-null cells of the rendered row of person p
NonNullCells(p) ==
    Cardinality({d1 \in 1..num_days :
        rendered[schedule_request.people[p + 1].id][d1] # None})

\* C12: monthly bounds. In every rendered schedule the number of non-null
\* cells of every person's row (shift codes, recovery tokens and paid-leave
\* tokens) lies in [monthlyMin, monthlyMax].
C12_MonthlyBoundsOnRenderedRow ==
    Accepted =>
        \A p \in People :
            /\ NonNullCells(p) >= schedule_request.people[p + 1].monthlyMin
            /\ NonNullCells(p) <= schedule_request.people[p + 1].monthlyMax

\* the cells of days d..d + n of person p that hold a shift code, the
\* recovery token or the paid-leave token
WorkedCells(p, d, n) ==
    Cardinality({day \in d..(d + n) :
        rendered[schedule_request.people[p + 1].id][day + 1] # None})

\* C13: consecutive-work cap. In every rendered schedule, for every person
\* with consecMax > 0 and every window of consecMax + 1 consecutive days
\* inside the month, at most consecMax cells of the window are a shift code,
\* the recovery token or the paid-leave token.
C13_ConsecutiveCap ==
    Accepted =>
        \A p \in People :
            LET consec_max == schedule_request.people[p + 1].consecMax
            IN  consec_max > 0 =>
                    \A d \in 0..(num_days - 1) :
                        d + consec_max <= num_days - 1 =>
                            WorkedCells(p, d, consec_max) <= consec_max

\* C13 witness: a person with consecMax = 2 whose rendered row fills a
\* window with a night shift and a recovery token and rests on its third day
C13_Witness ==
    /\ Accepted
    /\ schedule_request.people[1].consecMax = 2
    /\ rendered["a"] = <<"NA", RecoveryToken, None, "EA">>

-----------------------------------------------------------------------------
(* The solver on rosters holding the two people of the built-in conflict:
   claim C14 *)

\* the reference data: no pairShiftConflicts, or one entry for the pair
PairData ==
    {[nightRecoveryCounts |-> <<>>, previousMonthNightCarry |-> <<>>,
      pairShiftConflicts |-> conflicts] :
        conflicts \in
            {<<>>,
             <<[people |-> <<Shibata, Morikawa>>,
                rules |-> <<[firstPersonShifts |-> <<"NC">>,
                             secondPersonShifts |-> <<"EA">>,
                             dayOffset |-> 0]>>]>>}}

\* the rosters: the two people in either order
PairPeople ==
    {IF order = 1 THEN <<first, second>> ELSE <<second, first>> :
        order \in {1, 2},
        first \in {[id |-> Shibata, canWork |-> {"NC"},
                    fixedOffWeekdays |-> {},
                    monthlyMin |-> bounds[1], monthlyMax |-> bounds[2],
                    consecMax |-> 0] :
                      bounds \in {<<0, num_days>>, <<num_days, num_days>>}},
        second \in {[id |-> Morikawa, canWork |-> {"EA", "NA"},
                     fixedOffWeekdays |-> {}, monthlyMin |-> 0,
                     monthlyMax |-> num_days, consecMax |-> 0]}}

\* the pairShiftConflicts of a request: none; a rule with a negative offset
\* for the pair; an entry whose only rule names no known shift; an entry
\* that is not a pair
PairConflictRequests ==
    {<<>>,
     <<[people |-> <<Morikawa, Shibata>>,
        rules |-> <<[firstPersonShifts |-> <<"EA">>,
                     secondPersonShifts |-> <<"NC", "XX">>,
                     dayOffset |-> -1]>>]>>,
     <<[people |-> <<Shibata, Morikawa>>,
        rules |-> <<[firstPersonShifts |-> <<"XX">>,
                     secondPersonShifts |-> <<"NA">>,
                     dayOffset |-> 0]>>]>>,
     <<[people |-> <<Shibata>>,
        rules |-> <<[firstPersonShifts |-> <<"NC">>,
                     secondPersonShifts |-> <<"NC">>,
                     dayOffset |-> 0]>>]>>}

PairRequests ==
    {[people |-> people, wishOffs |-> wish, paidLeaves |-> <<>>,
      previousMonthNightCarry |-> <<>>, pairShiftConflicts |-> conflicts] :
        people \in PairPeople,
        wish \in {<<>>, [id \in {Shibata} |-> {0}]},
        conflicts \in PairConflictRequests}

InitPair ==
    /\ InitStore
    /\ InitDiffIdle
    /\ InitValidatorIdle
    /\ InitMapperIdle
    /\ data \in PairData
    /\ schedule_request \in PairRequests
    /\ solution = <<>>
    /\ status = "NOT_RUN"
    /\ rendered = EmptySchedule

SpecPair == InitPair /\ [][NextSolver]_vars

\* the person with this id is rostered and works one of shifts on day d
WorksOneOf(id, d, shifts) ==
    /\ person_index(schedule_request, id) # -1
    /\ \E s \in Elems(shifts) :
          Work(solution[person_index(schedule_request, id) + 1], d, s) = 1

\* C14: pair conflicts. For every normalised conflict rule (A, B, shifts_A,
\* shifts_B, offset) of the reference data, the request or the built-in
\* fallback, and every day d with 0 <= d + offset < D, no accepted solution
\* has A working a shift of shifts_A on day d together with B working a
\* shift of shifts_B on day d + offset.
C14_PairConflictsHonoured ==
    Accepted =>
        LET conflicts == normalized_conflicts(data, schedule_request)
        IN  \A i \in 1..Len(conflicts) :
                \A r \in 1..Len(conflicts[i][3]), d \in 0..(num_days - 1) :
                    LET rule == conflicts[i][3][r]
                    IN  (0 <= d + rule[3] /\ d + rule[3] < num_days) =>
                            ~(/\ WorksOneOf(conflicts[i][1], d, rule[1])
                              /\ WorksOneOf(conflicts[i][2], d + rule[3],
                                            rule[2]))

\* C14 witness: the built-in fallback is in force, Shibata works NC on day 0
\* and Morikawa works EA on day 0 and rests on day 1
C14_Witness ==
    /\ Accepted
    /\ normalized_conflicts(data, schedule_request) = <<FallbackConflict>>
    /\ rendered[Shibata][1] = "NC"
    /\ rendered[Morikawa][1] = "EA"
    /\ rendered[Morikawa][2] = None

-----------------------------------------------------------------------------
(* The rule post-validator on bounded schedules: claims C15 and C16 *)

\* the cells of an externally edited schedule
ValidatorCells == {None, "EA", RecoveryToken, PaidLeaveToken}

\* the schedules given to the validator: one row of RefDays cells
ValidatorSchedules ==
    {[id \in {"a"} |-> row] : row \in [1..RefDays -> ValidatorCells]}

\* the people given to the validator: consecMax 2, or 0 for unlimited
ValidatorPeople ==
    {<<[id |-> "a", weeklyMax |-> 40, monthlyMax |-> 160,
        consecMax |-> consec]>> : consec \in {0, 2}}

InitValidate ==
    /\ InitStore
    /\ InitDiffIdle
    /\ InitSolverIdle
    /\ InitMapperIdle
    /\ validator_schedule \in ValidatorSchedules
    /\ validator_people \in ValidatorPeople
    /\ violations = <<>>
    /\ validatorDone = FALSE

\* validate_schedule_rules(schedule, people, shifts, days, weekday_of_day1)
\* is called
ValidateScheduleRules ==
    /\ ~validatorDone
    /\ violations' = validate_schedule_rules(validator_schedule,
                         validator_people, Shifts, RefDays, RefWeekdayOfDay1)
    /\ validatorDone' = TRUE
    /\ UNCHANGED <<validator_schedule, validator_people, storeVars, diffVars,
                   solverVars, mapperVars>>

NextValidate == ValidateScheduleRules

SpecValidate == InitValidate /\ [][NextValidate]_vars

\* the number of consecutive non-null cells of the row that end on day d
\* (0-based), null cells alone resetting the count
RECURSIVE RunEndingAt(_, _)
RunEndingAt(row, d) ==
    IF d < 0 \/ row[d + 1] = None THEN 0 ELSE 1 + RunEndingAt(row, d - 1)

\* a consecutive-work violation is reported for the person
ConsecutiveReported(id) ==
    \E i \in 1..Len(violations) :
        violations[i].person = id /\ violations[i].rule = "consecMax"

\* C15: in the post-validator the recovery and paid-leave tokens count as
\* worked days for the consecutive-day counter and only a null cell resets
\* it: a run of non-null cells longer than consecMax (such as shift,
\* recovery token, shift) is reported as a consecutive-work violation.
C15_TokensCountAsWorkedDays ==
    validatorDone =>
        \A i \in 1..Len(validator_people) :
            LET person == validator_people[i]
                row == validator_schedule[person.id]
            IN  (/\ person.consecMax > 0
                 /\ \E d \in 0..(RefDays - 1) :
                       RunEndingAt(row, d) > person.consecMax)
                => ConsecutiveReported(person.id)

\* C16: consecMax = 0 means unlimited in the post-validator: no
\* consecutive-work violation is ever reported for a person whose consecMax
\* is 0.
C16_ZeroConsecMaxIsUnlimited ==
    validatorDone =>
        \A i \in 1..Len(validator_people) :
            validator_people[i].consecMax = 0
                => ~ConsecutiveReported(validator_people[i].id)

-----------------------------------------------------------------------------
(* The time-window mapper on bounded shift tables: claim C17 *)

\* the hours at which the shifts of a table start and end
MapperHours == {0, 7, 21, 24, 26, 31, 33}

\* the codes of a shift table, by position (the keys of the dict)
MapperCodes == <<"EA", "NA", "NC", "ND">>

\* the shift tables with 0 <= start < end < 48 of at most MaxShifts shifts
MapperTables ==
    UNION {{[i \in 1..n |-> [code |-> MapperCodes[i], start |-> times[i][1],
                             end |-> times[i][2]]] :
               times \in [1..n -> {se \in MapperHours \X MapperHours :
                                      se[1] < se[2]}]} :
           n \in 1..MaxShifts}

InitMapper ==
    /\ InitStore
    /\ InitDiffIdle
    /\ InitSolverIdle
    /\ InitValidatorIdle
    /\ mapper_shifts \in MapperTables
    /\ mapper_same_day = <<>>
    /\ mapper_carry_over = <<>>
    /\ mapperDone = FALSE

\* same_day, carry_over = _build_time_ranges(shifts) is called
BuildTimeRanges ==
    /\ ~mapperDone
    /\ mapper_same_day' = same_day(mapper_shifts)
    /\ mapper_carry_over' = carry_over(mapper_shifts)
    /\ mapperDone' = TRUE
    /\ UNCHANGED <<mapper_shifts, storeVars, diffVars, solverVars,
                   validatorVars>>

NextMapper == BuildTimeRanges

SpecMapper == InitMapper /\ [][NextMapper]_vars

\* the interval of a window label for carry-over, 0-7 being [0, 7)
CarryInterval(label) ==
    CASE label = "7-9" -> <<7, 9>>
      [] label = "9-15" -> <<9, 15>>
      [] label = "16-18" -> <<16, 18>>
      [] label = "18-24" -> <<18, 24>>
      [] label = "0-7" -> <<0, 7>>

\* strict overlap of [a1, a2) and [b1, b2)
Overlaps(a1, a2, b1, b2) == Max(a1, b1) < Min(a2, b2)

\* the codes, in table order, of the shifts that end after midnight and
\* whose post-midnight portion overlaps the label's interval
ExpectedCarryOver(shifts, label) ==
    LET Carried(shift) ==
            /\ shift.end > 24
            /\ Overlaps(Max(shift.start, 24) - 24, shift.end - 24,
                        CarryInterval(label)[1], CarryInterval(label)[2])
        kept == SelectSeq(shifts, Carried)
    IN  [i \in 1..Len(kept) |-> kept[i].code]

\* C17: time-window mapper carry-over. For every shift table with
\* 0 <= start < end < 48 and every window label, carry_over[label] is exactly
\* the list, in shift-table order, of the shifts with end > 24 whose
\* post-midnight portion [max(start, 24) - 24, end - 24) strictly overlaps
\* the label's interval, the 0-7 window being [0, 7); so a 21-31 shift is in
\* carry_over["0-7"].
C17_CarryOverIsPostMidnightOverlap ==
    mapperDone =>
        \A label \in Elems(WindowLabels) :
            mapper_carry_over[label] = ExpectedCarryOver(mapper_shifts, label)

-----------------------------------------------------------------------------
(* The solver on bounded requests: claims C18 and C19 *)

\* the head count of a window recomputed from the shift codes visible in the
\* rendered schedule: same-day shifts on day d, carry-over shifts on day
\* d - 1, the previous-month carry count on day 0
VisibleActual(d, label) ==
    LET ids == {schedule_request.people[i].id :
                   i \in 1..Len(schedule_request.people)}
    IN  Cardinality({id \in ids :
                        rendered[id][d + 1] \in Elems(time_ranges[label])})
        + (IF d > 0
           THEN Cardinality({id \in ids :
                    rendered[id][d] \in Elems(carry_over_ranges[label])})
           ELSE previous_carry_counts(data, schedule_request, label))

\* C18: in every accepted solution the recovery variable and the work
\* variables exclude each other per cell (night_recovery[p, d] = 1 implies
\* work[p, d, s] = 0 for every shift s), so a recovery token never hides an
\* assigned shift and the reported head count `actual` of every window equals
\* the head count recomputed from the rendered schedule.
C18_RecoveryExcludesWork ==
    Accepted =>
        /\ \A p \in People, d \in 0..(num_days - 1) :
              solution[p + 1][d + 1].rec => solution[p + 1][d + 1].work = {}
        /\ \A d \in 0..(num_days - 1), label \in Elems(WindowLabels) :
              actual(data, schedule_request, solution, d, label)
                  = VisibleActual(d, label)

\* the request of C19: its only restriction is that the one rostered person
\* is carried under a night code c the person can work, with a recovery
\* count of at least 2
CarryOnlyRequest ==
    /\ Len(schedule_request.people) = 1
    /\ \E c \in DOMAIN night_rest :
          /\ CarriedUnder(0, c)
          /\ RecoveryCount(c) >= 2
          /\ c \in schedule_request.people[1].canWork
    /\ schedule_request.people[1].monthlyMin = 0
    /\ schedule_request.people[1].monthlyMax >= num_days
    /\ schedule_request.people[1].consecMax = 0
    /\ schedule_request.people[1].fixedOffWeekdays = {}
    /\ schedule_request.wishOffs = <<>>
    /\ schedule_request.paidLeaves = <<>>
    /\ schedule_request.pairShiftConflicts = <<>>

\* C19: the previous-month carry constraints are consistent with the
\* night-recovery definition: for a request whose only restriction is such a
\* carry, the hard constraints are satisfiable and the solve does not end
\* INFEASIBLE.
C19_CarryRequestIsSatisfiable ==
    CarryOnlyRequest => status # "INFEASIBLE"

====
